---- MODULE Spec2Model ----
(***************************************************************************)
(* Overlay controller of src-tauri/src/lib.rs: the three commands          *)
(* show_overlay, hide_overlay and toggle_overlay, each a few calls on a    *)
(* window handle looked up by label in the host's window registry.         *)
(*                                                                         *)
(* The host window is the only state: the registry (which labels have a    *)
(* window) and each window's visibility.  A host call either succeeds and  *)
(* takes effect, or fails (the Err the code renders with to_string) and    *)
(* leaves the window as it was.  Every command is modelled statement by    *)
(* statement; `calls` records the host calls an invocation has requested   *)
(* and `hist` the completed invocations, in completion order.              *)
(***************************************************************************)
EXTENDS Naturals, Sequences, FiniteSets

VARIABLES windows, visible, pc, window, calls, started, hist

vars == <<windows, visible, pc, window, calls, started, hist>>

\* ---------------------------------------------------------------- bounds
\* Number of commands invoked in one run of the application.
MaxCalls == 3
\* Number of invocation contexts the host has for commands.
NumSlots == 2

Slots == 1..NumSlots

\* ------------------------------------------------------------- constants
\* The label the three commands look up (lib.rs:5, 14, 22).
OVERLAY == "overlay"
\* Any other window the host may have registered.
MAIN == "main"
Labels == {OVERLAY, MAIN}

\* Option::None of get_webview_window, and the unset local of an invocation.
None == "none"

\* What a slot with no command running remembers of an invocation: nothing.
NotStarted == [cmd |-> None, present |-> FALSE, before |-> FALSE]

Commands == {"show_overlay", "hide_overlay", "toggle_overlay"}

\* Result<(), String> and Result<bool, String> values.
OkUnit == [tag |-> "Ok", val |-> "()"]
OkBool(b) == [tag |-> "Ok", val |-> IF b THEN "true" ELSE "false"]
\* lib.rs:33
ErrNotFound == [tag |-> "Err", val |-> "Overlay window not found"]
\* map_err(|e| e.to_string()) of a failed host call: the host's own message,
\* which the model identifies by the call `op` that failed.
ErrHost(op) == [tag |-> "Err", val |-> op]

\* ------------------------------------------------------------- host API
\* app.get_webview_window(label): Some(handle) iff a window has the label.
get_webview_window(label) == IF label \in windows THEN label ELSE None

\* window.is_visible(): the value an Ok carries.
is_visible(w) == visible[w]

\* window.show(): on success the window is visible.
show(w, ok) ==
    /\ visible' = IF ok THEN [visible EXCEPT ![w] = TRUE] ELSE visible
    /\ UNCHANGED windows

\* window.hide(): on success the window is hidden.
hide(w, ok) ==
    /\ visible' = IF ok THEN [visible EXCEPT ![w] = FALSE] ELSE visible
    /\ UNCHANGED windows

\* window.set_focus(): changes neither the registry nor visibility.
set_focus(w, ok) == UNCHANGED <<windows, visible>>

\* The window calls the commands make on the host.
HostOps == {"is_visible", "show", "hide", "set_focus"}

\* One entry of an invocation's log of host calls.
Call(op, ok) == [op |-> op, ok |-> ok]

\* --------------------------------------------------------------- control
\* The statement a command starts at.
Entry(c) ==
    CASE c = "show_overlay" -> "show_5"
      [] c = "hide_overlay" -> "hide_14"
      [] c = "toggle_overlay" -> "toggle_22"

\* Variant of MainThreadFree: commands declared #[tauri::command(async)], which
\* the host starts while others are still running.
MainThreadFree_async == TRUE

\* Commands declared with a plain #[tauri::command] on a non-async fn are run
\* by the host one at a time: a command starts only when none is running.
MainThreadFree == \A q \in Slots : pc[q] = "idle"

InFlight == Cardinality({q \in Slots : pc[q] # "idle"})

\* The host dispatches command c into slot p (generate_handler!, lib.rs:43-47).
invoke_handler(p, c) ==
    /\ pc[p] = "idle"
    /\ MainThreadFree
    /\ Len(hist) + InFlight < MaxCalls
    /\ pc' = [pc EXCEPT ![p] = Entry(c)]
    /\ started' = [started EXCEPT ![p] =
                     [cmd |-> c, present |-> OVERLAY \in windows,
                      before |-> visible[OVERLAY]]]
    /\ UNCHANGED <<windows, visible, window, calls, hist>>

\* The command in slot p requests host call `op`, which ends `ok`.
Request(p, op, ok) == calls' = [calls EXCEPT ![p] = Append(@, Call(op, ok))]

\* The command in slot p moves on to statement `next`.
Goto(p, next) ==
    /\ pc' = [pc EXCEPT ![p] = next]
    /\ UNCHANGED <<started, hist>>

\* The command in slot p returns `res`: its locals are dropped, and the
\* invocation is recorded with the host calls it requested (`log`) and the
\* overlay's visibility as the command leaves it.
Return(p, res, log) ==
    /\ pc' = [pc EXCEPT ![p] = "idle"]
    /\ window' = [window EXCEPT ![p] = None]
    /\ calls' = [calls EXCEPT ![p] = <<>>]
    /\ started' = [started EXCEPT ![p] = NotStarted]
    /\ hist' = Append(hist, [cmd |-> started[p].cmd,
                             present |-> started[p].present,
                             before |-> started[p].before,
                             after |-> visible'[OVERLAY],
                             calls |-> log,
                             res |-> res])

\* window.close(): on success the window leaves the registry.
close(w, ok) ==
    /\ windows' = IF ok THEN windows \ {w} ELSE windows
    /\ visible' = IF ok THEN [visible EXCEPT ![w] = FALSE] ELSE visible

\* ---------------------------------------------------------- show_overlay
\* Variant of show_overlay_lookup: the absent window is reported as in
\* toggle_overlay instead of being a silent success.
show_overlay_lookup_not_found(p) ==
    /\ pc[p] = "show_5"
    /\ IF get_webview_window(OVERLAY) # None
         THEN /\ window' = [window EXCEPT ![p] = get_webview_window(OVERLAY)]
              /\ Goto(p, "show_6")
              /\ UNCHANGED <<windows, visible, calls>>
         ELSE /\ UNCHANGED <<windows, visible>>
              /\ Return(p, ErrNotFound, calls[p])

\* lib.rs:5  if let Some(window) = app.get_webview_window("overlay")
\* lib.rs:9  Ok(()) when the window is absent
show_overlay_lookup(p) ==
    /\ pc[p] = "show_5"
    /\ IF get_webview_window(OVERLAY) # None
         THEN /\ window' = [window EXCEPT ![p] = get_webview_window(OVERLAY)]
              /\ Goto(p, "show_6")
              /\ UNCHANGED <<windows, visible, calls>>
         ELSE /\ UNCHANGED <<windows, visible>>
              /\ Return(p, OkUnit, calls[p])

\* Variant of show_overlay_show: the show call is left out, the command goes
\* straight to set_focus.
show_overlay_show_skipped(p) ==
    /\ pc[p] = "show_6"
    /\ Goto(p, "show_7")
    /\ UNCHANGED <<windows, visible, window, calls>>

\* lib.rs:6  window.show().map_err(|e| e.to_string())?;
show_overlay_show(p) ==
    /\ pc[p] = "show_6"
    /\ \E ok \in BOOLEAN :
         /\ show(window[p], ok)
         /\ IF ok
              THEN /\ Request(p, "show", ok)
                   /\ Goto(p, "show_7")
                   /\ UNCHANGED window
              ELSE Return(p, ErrHost("show"), Append(calls[p], Call("show", ok)))

\* lib.rs:7  window.set_focus().map_err(|e| e.to_string())?;
\* lib.rs:9  Ok(())
show_overlay_focus(p) ==
    /\ pc[p] = "show_7"
    /\ \E ok \in BOOLEAN :
         /\ set_focus(window[p], ok)
         /\ Return(p, IF ok THEN OkUnit ELSE ErrHost("set_focus"),
                   Append(calls[p], Call("set_focus", ok)))

\* ---------------------------------------------------------- hide_overlay
\* lib.rs:14  if let Some(window) = app.get_webview_window("overlay")
\* lib.rs:17  Ok(()) when the window is absent
hide_overlay_lookup(p) ==
    /\ pc[p] = "hide_14"
    /\ IF get_webview_window(OVERLAY) # None
         THEN /\ window' = [window EXCEPT ![p] = get_webview_window(OVERLAY)]
              /\ Goto(p, "hide_15")
              /\ UNCHANGED <<windows, visible, calls>>
         ELSE /\ UNCHANGED <<windows, visible>>
              /\ Return(p, OkUnit, calls[p])

\* Variant of hide_overlay_hide: the window is closed instead of hidden.
hide_overlay_close(p) ==
    /\ pc[p] = "hide_15"
    /\ \E ok \in BOOLEAN :
         /\ close(window[p], ok)
         /\ Return(p, IF ok THEN OkUnit ELSE ErrHost("hide"),
                   Append(calls[p], Call("hide", ok)))

\* lib.rs:15  window.hide().map_err(|e| e.to_string())?;
\* lib.rs:17  Ok(())
hide_overlay_hide(p) ==
    /\ pc[p] = "hide_15"
    /\ \E ok \in BOOLEAN :
         /\ hide(window[p], ok)
         /\ Return(p, IF ok THEN OkUnit ELSE ErrHost("hide"),
                   Append(calls[p], Call("hide", ok)))

\* -------------------------------------------------------- toggle_overlay
\* Variant of toggle_overlay_lookup: the lookup uses another window's label.
toggle_overlay_lookup_wrong_label(p) ==
    /\ pc[p] = "toggle_22"
    /\ IF get_webview_window(MAIN) # None
         THEN /\ window' = [window EXCEPT ![p] = get_webview_window(MAIN)]
              /\ Goto(p, "toggle_23")
              /\ UNCHANGED <<windows, visible, calls>>
         ELSE /\ UNCHANGED <<windows, visible>>
              /\ Return(p, ErrNotFound, calls[p])

\* lib.rs:22  if let Some(window) = app.get_webview_window("overlay")
\* lib.rs:33  Err("Overlay window not found".to_string())
toggle_overlay_lookup(p) ==
    /\ pc[p] = "toggle_22"
    /\ IF get_webview_window(OVERLAY) # None
         THEN /\ window' = [window EXCEPT ![p] = get_webview_window(OVERLAY)]
              /\ Goto(p, "toggle_23")
              /\ UNCHANGED <<windows, visible, calls>>
         ELSE /\ UNCHANGED <<windows, visible>>
              /\ Return(p, ErrNotFound, calls[p])

\* Variant of toggle_overlay_is_visible: the branch condition is negated
\* (if !visible).
toggle_overlay_is_visible_inverted(p) ==
    /\ pc[p] = "toggle_23"
    /\ UNCHANGED <<windows, visible>>
    /\ \E ok \in BOOLEAN :
         IF ok
           THEN /\ Request(p, "is_visible", ok)
                /\ Goto(p, IF ~is_visible(window[p]) THEN "toggle_25" ELSE "toggle_28")
                /\ UNCHANGED window
           ELSE Return(p, ErrHost("is_visible"),
                       Append(calls[p], Call("is_visible", ok)))

\* Variant of toggle_overlay_is_visible: a failed query counts as hidden
\* (unwrap_or(false)) instead of returning the error.
toggle_overlay_is_visible_default_hidden(p) ==
    /\ pc[p] = "toggle_23"
    /\ UNCHANGED <<windows, visible>>
    /\ \E ok \in BOOLEAN :
         /\ Request(p, "is_visible", ok)
         /\ Goto(p, IF ok /\ is_visible(window[p]) THEN "toggle_25" ELSE "toggle_28")
         /\ UNCHANGED window

\* lib.rs:23  let visible = window.is_visible().map_err(|e| e.to_string())?;
\* lib.rs:24  if visible { ... } else { ... }
\* The local `visible` is read by this branch only: the statement reached
\* (toggle_25 or toggle_28) carries its value.
toggle_overlay_is_visible(p) ==
    /\ pc[p] = "toggle_23"
    /\ UNCHANGED <<windows, visible>>
    /\ \E ok \in BOOLEAN :
         IF ok
           THEN /\ Request(p, "is_visible", ok)
                /\ Goto(p, IF is_visible(window[p]) THEN "toggle_25" ELSE "toggle_28")
                /\ UNCHANGED window
           ELSE Return(p, ErrHost("is_visible"),
                       Append(calls[p], Call("is_visible", ok)))

\* Variant of toggle_overlay_hide: the value read, not the new visibility, is
\* returned (Ok(visible)).
toggle_overlay_hide_returns_old(p) ==
    /\ pc[p] = "toggle_25"
    /\ \E ok \in BOOLEAN :
         /\ hide(window[p], ok)
         /\ Return(p, IF ok THEN OkBool(TRUE) ELSE ErrHost("hide"),
                   Append(calls[p], Call("hide", ok)))

\* lib.rs:25  window.hide().map_err(|e| e.to_string())?;
\* lib.rs:26  Ok(false)
toggle_overlay_hide(p) ==
    /\ pc[p] = "toggle_25"
    /\ \E ok \in BOOLEAN :
         /\ hide(window[p], ok)
         /\ Return(p, IF ok THEN OkBool(FALSE) ELSE ErrHost("hide"),
                   Append(calls[p], Call("hide", ok)))

\* Variant of toggle_overlay_show: the result of show is dropped
\* (let _ = window.show()) and the command goes on to set_focus.
toggle_overlay_show_ignores_error(p) ==
    /\ pc[p] = "toggle_28"
    /\ \E ok \in BOOLEAN :
         /\ show(window[p], ok)
         /\ Request(p, "show", ok)
         /\ Goto(p, "toggle_29")
         /\ UNCHANGED window

\* lib.rs:28  window.show().map_err(|e| e.to_string())?;
toggle_overlay_show(p) ==
    /\ pc[p] = "toggle_28"
    /\ \E ok \in BOOLEAN :
         /\ show(window[p], ok)
         /\ IF ok
              THEN /\ Request(p, "show", ok)
                   /\ Goto(p, "toggle_29")
                   /\ UNCHANGED window
              ELSE Return(p, ErrHost("show"), Append(calls[p], Call("show", ok)))

\* Variant of toggle_overlay_focus: a failed set_focus is rolled back by
\* hiding the window again before the error is returned.
toggle_overlay_focus_rollback(p) ==
    /\ pc[p] = "toggle_29"
    /\ \E ok \in BOOLEAN :
         /\ IF ok THEN set_focus(window[p], ok) ELSE hide(window[p], TRUE)
         /\ Return(p, IF ok THEN OkBool(TRUE) ELSE ErrHost("set_focus"),
                   Append(calls[p], Call("set_focus", ok)))

\* lib.rs:29  window.set_focus().map_err(|e| e.to_string())?;
\* lib.rs:30  Ok(true)
toggle_overlay_focus(p) ==
    /\ pc[p] = "toggle_29"
    /\ \E ok \in BOOLEAN :
         /\ set_focus(window[p], ok)
         /\ Return(p, IF ok THEN OkBool(TRUE) ELSE ErrHost("set_focus"),
                   Append(calls[p], Call("set_focus", ok)))

\* ---------------------------------------------------------- specification
\* The host starts with any set of windows registered, each shown or hidden;
\* no command is running.
Init ==
    /\ windows \in SUBSET Labels
    /\ visible \in [Labels -> BOOLEAN]
    /\ \A l \in Labels : l \notin windows => visible[l] = FALSE
    /\ pc = [p \in Slots |-> "idle"]
    /\ window = [p \in Slots |-> None]
    /\ calls = [p \in Slots |-> <<>>]
    /\ started = [p \in Slots |-> NotStarted]
    /\ hist = <<>>

Next ==
    \E p \in Slots :
        \/ \E c \in Commands : invoke_handler(p, c)
        \/ show_overlay_lookup(p)
        \/ show_overlay_show(p)
        \/ show_overlay_focus(p)
        \/ hide_overlay_lookup(p)
        \/ hide_overlay_hide(p)
        \/ toggle_overlay_lookup(p)
        \/ toggle_overlay_is_visible(p)
        \/ toggle_overlay_hide(p)
        \/ toggle_overlay_show(p)
        \/ toggle_overlay_focus(p)

Spec == Init /\ [][Next]_vars

\* ------------------------------------------------------- claim vocabulary
\* Every host call of log `log` succeeded.
AllOk(log) == \A k \in 1..Len(log) : log[k].ok

\* The host calls of a log, in order, without their outcomes.
Ops(log) == [k \in 1..Len(log) |-> log[k].op]

\* The outcomes of a log's host calls, in order.
Oks(log) == [k \in 1..Len(log) |-> log[k].ok]

\* Record r is a completed toggle_overlay that found the window and whose
\* host calls all succeeded.
GoodToggle(r) == r.cmd = "toggle_overlay" /\ r.present /\ AllOk(r.calls)

\* C1: with the overlay present and every host call succeeding, two
\* consecutive toggle_overlay calls from starting visibility v leave the
\* visibility equal to v, and the first returns Ok(~v), not Ok(v).
C1_ToggleTwiceRestores ==
    \A i \in 1..(Len(hist) - 1) :
        (GoodToggle(hist[i]) /\ GoodToggle(hist[i + 1]))
            => /\ hist[i + 1].after = hist[i].before
               /\ hist[i].res = OkBool(~hist[i].before)
               /\ hist[i].res # OkBool(hist[i].before)

\* Three successful toggles in a row: the pair (1,2) starts from v and the
\* pair (2,3) from ~v, so both starting visibilities are exercised.
C1_Witness ==
    /\ Len(hist) >= 3
    /\ \A i \in 1..3 : GoodToggle(hist[i])
    /\ hist[2].before # hist[1].before

\* C2: whenever toggle_overlay returns Ok(b), the overlay's visibility right
\* after the call is b: Ok(false) comes after hiding a visible window,
\* Ok(true) after showing and focusing a hidden one.
C2_ToggleReturnsNewVisibility ==
    \A i \in 1..Len(hist) :
        (hist[i].cmd = "toggle_overlay" /\ hist[i].res.tag = "Ok")
            => /\ hist[i].res = OkBool(hist[i].after)
               /\ hist[i].res = OkBool(FALSE)
                    => /\ hist[i].before
                       /\ Ops(hist[i].calls) = <<"is_visible", "hide">>
               /\ hist[i].res = OkBool(TRUE)
                    => /\ ~hist[i].before
                       /\ Ops(hist[i].calls) = <<"is_visible", "show", "set_focus">>

\* A run in which toggle_overlay has returned Ok(true) and Ok(false).
C2_Witness ==
    /\ \E i \in 1..Len(hist) :
         hist[i].cmd = "toggle_overlay" /\ hist[i].res = OkBool(TRUE)
    /\ \E i \in 1..Len(hist) :
         hist[i].cmd = "toggle_overlay" /\ hist[i].res = OkBool(FALSE)

\* C3: with no window registered under "overlay", toggle_overlay returns the
\* fixed error "Overlay window not found" and requests no host window call.
C3_ToggleMissingIsNotFound ==
    /\ \A i \in 1..Len(hist) :
         (hist[i].cmd = "toggle_overlay" /\ ~hist[i].present)
            => /\ hist[i].res = ErrNotFound
               /\ \A op \in HostOps : hist[i].res # ErrHost(op)
               /\ hist[i].calls = <<>>
    /\ \A p \in Slots :
         (started[p].cmd = "toggle_overlay" /\ ~started[p].present)
            => /\ calls[p] = <<>>
               /\ pc[p] = "toggle_22"
               /\ window[p] = None

\* toggle_overlay has completed twice where another window, but not the
\* overlay, is registered.
C3_Witness ==
    /\ OVERLAY \notin windows
    /\ MAIN \in windows
    /\ Len(hist) >= 2
    /\ \A i \in 1..2 : hist[i].cmd = "toggle_overlay" /\ hist[i].res = ErrNotFound

\* C4: with no window registered under "overlay", the step show_overlay or
\* hide_overlay takes is its return of Ok(()): no host call is requested and
\* the registry and every window's visibility are unchanged.
C4_ShowHideMissingStep(p) ==
    (/\ pc[p] \in {"show_5", "hide_14"}
     /\ OVERLAY \notin windows
     /\ pc'[p] # pc[p])
        => /\ pc'[p] = "idle"
           /\ Len(hist') = Len(hist) + 1
           /\ hist'[Len(hist')].cmd = started[p].cmd
           /\ hist'[Len(hist')].res = OkUnit
           /\ hist'[Len(hist')].res # ErrNotFound
           /\ hist'[Len(hist')].calls = <<>>
           /\ windows' = windows
           /\ visible' = visible

\* C4, over every step of every slot: show_overlay and hide_overlay on a
\* missing overlay return Ok(()) as a no-op, never the "not found" error.
C4_ShowHideMissingNoOp == [][\A p \in Slots : C4_ShowHideMissingStep(p)]_vars

\* Both show_overlay and hide_overlay have returned Ok(()) without a host call
\* where the overlay is absent.
C4_Witness ==
    /\ OVERLAY \notin windows
    /\ \E i \in 1..Len(hist) :
         hist[i].cmd = "show_overlay" /\ hist[i].res = OkUnit /\ hist[i].calls = <<>>
    /\ \E i \in 1..Len(hist) :
         hist[i].cmd = "hide_overlay" /\ hist[i].res = OkUnit /\ hist[i].calls = <<>>

\* C5: with the overlay present and host calls succeeding, hide_overlay
\* followed by show_overlay leaves the window visible, whatever it was before.
C5_HideThenShowVisible ==
    \A i \in 1..(Len(hist) - 1) :
        (/\ hist[i].cmd = "hide_overlay" /\ hist[i].present /\ AllOk(hist[i].calls)
         /\ hist[i + 1].cmd = "show_overlay" /\ AllOk(hist[i + 1].calls))
            => /\ hist[i + 1].after
               /\ visible[OVERLAY] \/ Len(hist) > i + 1 \/ InFlight > 0

\* hide_overlay then show_overlay have both succeeded, starting from a
\* visible overlay that the hide did hide.
C5_Witness ==
    \E i \in 1..(Len(hist) - 1) :
        /\ hist[i].cmd = "hide_overlay" /\ hist[i].present /\ hist[i].before
        /\ hist[i].res = OkUnit /\ ~hist[i].after
        /\ hist[i + 1].cmd = "show_overlay" /\ hist[i + 1].res = OkUnit
        /\ Len(hist[i + 1].calls) = 2

\* In log `log`, set_focus is requested only right after a show that succeeded.
FocusFollowsShow(log) ==
    \A k \in 1..Len(log) :
        log[k].op = "set_focus" => (k > 1 /\ log[k - 1] = Call("show", TRUE))

\* In log `log`, a show that failed is the last host call requested.
FailedShowIsLast(log) ==
    \A k \in 1..Len(log) : log[k] = Call("show", FALSE) => k = Len(log)

\* Log `log` holds no set_focus request.
NoFocus(log) == \A k \in 1..Len(log) : log[k].op # "set_focus"

\* C6: in show_overlay and in the hidden branch of toggle_overlay, set_focus
\* is requested only after show has succeeded; a failed show ends the command
\* with an error and no focus request.  hide_overlay and the visible branch of
\* toggle_overlay never request focus.
C6_ShowBeforeFocus ==
    /\ \A p \in Slots : FocusFollowsShow(calls[p]) /\ FailedShowIsLast(calls[p])
    /\ \A p \in Slots : pc[p] \in {"show_7", "toggle_29"}
            => (calls[p] # <<>> /\ calls[p][Len(calls[p])] = Call("show", TRUE))
    /\ \A i \in 1..Len(hist) :
         LET r == hist[i] IN
         /\ FocusFollowsShow(r.calls)
         /\ FailedShowIsLast(r.calls)
         /\ (r.calls # <<>> /\ r.calls[Len(r.calls)] = Call("show", FALSE))
                => r.res = ErrHost("show")
         /\ r.cmd = "hide_overlay" => NoFocus(r.calls)
         /\ (r.cmd = "toggle_overlay" /\ Len(r.calls) >= 2 /\ r.calls[2].op = "hide")
                => NoFocus(r.calls)
         /\ (r.cmd = "show_overlay" /\ r.res = OkUnit /\ r.present)
                => Ops(r.calls) = <<"show", "set_focus">>

\* show_overlay has requested show then set_focus, and a toggle_overlay on a
\* hidden window has failed its show and returned without a focus request.
C6_Witness ==
    /\ \E i \in 1..Len(hist) :
         hist[i].cmd = "show_overlay" /\ Ops(hist[i].calls) = <<"show", "set_focus">>
    /\ \E i \in 1..Len(hist) :
         /\ hist[i].cmd = "toggle_overlay"
         /\ hist[i].calls = <<Call("is_visible", TRUE), Call("show", FALSE)>>
         /\ hist[i].res.tag = "Err"

\* C7: invocations of the three commands never overlap, so toggle_overlay
\* hides or shows the window in the visibility it has just read, and the
\* booleans returned by toggle_overlay calls that follow one another, each
\* successful, alternate.
C7_SerialTogglesAlternate ==
    /\ InFlight <= 1
    /\ \A p \in Slots :
         /\ pc[p] = "toggle_25" => visible[OVERLAY]
         /\ pc[p] = "toggle_28" => ~visible[OVERLAY]
    /\ \A i \in 1..(Len(hist) - 1) :
         (/\ hist[i].cmd = "toggle_overlay" /\ hist[i].res.tag = "Ok"
          /\ hist[i + 1].cmd = "toggle_overlay" /\ hist[i + 1].res.tag = "Ok")
            => hist[i + 1].res # hist[i].res

\* Three successful toggles in a row returned b, ~b, b.
C7_Witness ==
    /\ Len(hist) >= 3
    /\ \A i \in 1..3 : hist[i].cmd = "toggle_overlay" /\ hist[i].res.tag = "Ok"
    /\ hist[1].res # hist[2].res
    /\ hist[1].res = hist[3].res

\* The inputs of completed invocation r: the command, the host window's
\* presence and visibility when it started, and the host calls' outcomes.
Inputs(r) == <<r.cmd, r.present, r.before, Oks(r.calls)>>

\* C8: no step of any command changes which windows are registered, a slot
\* with no command running holds nothing of an earlier call, and two
\* invocations with the same command, window presence, visibility and host
\* call outcomes have the same outcome.
C8_Step ==
    /\ windows' = windows
    /\ \A p \in Slots :
         pc'[p] = "idle"
            => (window'[p] = None /\ calls'[p] = <<>> /\ started'[p] = NotStarted)
    /\ \A i \in 1..Len(hist') : \A j \in 1..Len(hist') :
         Inputs(hist'[i]) = Inputs(hist'[j]) => hist'[i] = hist'[j]

\* C8, over every step: the commands never create or destroy the window and
\* keep no state of their own between calls.
C8_RegistryUntouchedNoOwnState == [][C8_Step]_vars

\* The same command has run twice on a present overlay from the same
\* visibility, with a different command in between, and has requested host
\* calls.
C8_Witness ==
    /\ OVERLAY \in windows
    /\ Len(hist) >= 3
    /\ Inputs(hist[1]) = Inputs(hist[3])
    /\ hist[2].cmd # hist[1].cmd
    /\ hist[2].after # hist[2].before
    /\ hist[1].calls # <<>>

\* C9: if is_visible fails in toggle_overlay with the window present, the
\* command returns an error having requested no show, hide or set_focus, and
\* the window's visibility is unchanged.
C9_FailedQueryNoEffect ==
    \A i \in 1..Len(hist) :
        (/\ hist[i].cmd = "toggle_overlay"
         /\ hist[i].calls # <<>>
         /\ hist[i].calls[1] = Call("is_visible", FALSE))
            => /\ hist[i].res = ErrHost("is_visible")
               /\ Len(hist[i].calls) = 1
               /\ hist[i].after = hist[i].before

\* toggle_overlay has failed its visibility query on a visible overlay.
C9_Witness ==
    \E i \in 1..Len(hist) :
        /\ hist[i].cmd = "toggle_overlay" /\ hist[i].present /\ hist[i].before
        /\ hist[i].calls = <<Call("is_visible", FALSE)>>
        /\ hist[i].res.tag = "Err"

\* Invocation r requested show, which succeeded, then set_focus, which failed.
FocusFailedAfterShow(r) ==
    /\ Len(r.calls) >= 2
    /\ r.calls[Len(r.calls) - 1] = Call("show", TRUE)
    /\ r.calls[Len(r.calls)] = Call("set_focus", FALSE)

\* C10: when show succeeds and the following set_focus fails, show_overlay
\* and toggle_overlay return an error and leave the window visible; a
\* toggle_overlay that follows and succeeds returns Ok(false).
C10_NoRollback ==
    \A i \in 1..Len(hist) :
        FocusFailedAfterShow(hist[i])
            => /\ hist[i].cmd \in {"show_overlay", "toggle_overlay"}
               /\ hist[i].res = ErrHost("set_focus")
               /\ hist[i].after
               /\ (/\ i < Len(hist)
                   /\ hist[i + 1].cmd = "toggle_overlay"
                   /\ hist[i + 1].res.tag = "Ok")
                     => hist[i + 1].res = OkBool(FALSE)

\* A toggle_overlay on a hidden overlay returned an error yet left it visible,
\* and the next toggle_overlay succeeded with Ok(false).
C10_Witness ==
    \E i \in 1..(Len(hist) - 1) :
        /\ hist[i].cmd = "toggle_overlay" /\ FocusFailedAfterShow(hist[i])
        /\ ~hist[i].before /\ hist[i].after /\ hist[i].res.tag = "Err"
        /\ hist[i + 1].cmd = "toggle_overlay" /\ hist[i + 1].res = OkBool(FALSE)

====
